---- MODULE Spec2Model ----
(***************************************************************************)
(* Tabular model-free control (q_td_learning/mc_td_and_qlearning.py):      *)
(* episode sampling, discounted returns, first-visit Monte Carlo GLIE,     *)
(* SARSA and Q-learning, with the epsilon-greedy improvement operator.     *)
(*                                                                         *)
(* Reals are modelled exactly, as normalised fractions <<n, d>>, d > 0,    *)
(* gcd(|n|, d) = 1, so that equality of tuples is equality of numbers.     *)
(* Floating-point rounding is outside this model.                          *)
(***************************************************************************)
EXTENDS Integers, Sequences, FiniteSets, TLC

VARIABLES
    entry,        \* the entry point that was called
    pc,           \* position inside that entry point
    iterations,   \* argument `iterations` of the control loops
    gamma,        \* argument `gamma` (discount factor)
    alpha,        \* argument `alpha` (learning rate)
    Q_value,      \* Q_value[s][a]
    n_visits,     \* n_visits[s][a]
    policy,       \* policy[s][a]
    epsilon,      \* local `epsilon` of the control loops
    t,            \* loop counter: k of mc_glie, t of td_sarsa and qlearning
    s_t1,         \* current state of td_sarsa / qlearning
    a_t1,         \* current action of td_sarsa
    episode,      \* local `episode` of generate_episode
    curr_state,   \* local `curr_state` of generate_episode
    i,            \* generate_episode: the next index range(max_steps) yields
    max_steps,    \* argument `max_steps` of generate_episode
    returns,      \* result of generate_returns
    det_policy,   \* returned greedy policy
    env,          \* the environment object, as seen through reset/step
    last,         \* history: what the most recent operation observed
    ret_sum,      \* history: sum of the returns used in updates of a pair
    ret_seen      \* history: set of the returns used in updates of a pair

vars == <<entry, pc, iterations, gamma, alpha, Q_value, n_visits, policy,
          epsilon, t, s_t1, a_t1, episode, curr_state, i, max_steps,
          returns, det_policy, env, last, ret_sum, ret_seen>>

-----------------------------------------------------------------------------
(* Bounds of the model *)

NS == 3                 \* env.nS of the corridor environment
NA == 2                 \* env.nA
MaxIterations == 3      \* largest `iterations` handed to td_sarsa and qlearning
McMaxIterations == 2    \* largest `iterations` handed to mc_glie
McMaxSteps == 2         \* stands for generate_episode's default max_steps
MaxStepsIn == 2         \* largest max_steps handed to generate_episode alone
MaxLen == 4             \* longest episode handed to generate_returns alone
ImpNS == 2              \* nS handed to epsilon_greedy_policy_improve alone
ImpNA == 4              \* nA handed to epsilon_greedy_policy_improve alone

States == 0 .. (NS - 1)
Actions == 0 .. (NA - 1)
AnyRewards == {0, 1}

-----------------------------------------------------------------------------
(* Exact arithmetic on fractions *)

Abs(x) == IF x < 0 THEN 0 - x ELSE x

RECURSIVE GCD(_, _)
GCD(a, b) == IF b = 0 THEN a ELSE GCD(b, a % b)

RNorm(n, d) ==
    LET g == GCD(Abs(n), d) IN <<n \div g, d \div g>>

RInt(n) == <<n, 1>>

Zero == RInt(0)
One == RInt(1)

RAdd(x, y) ==
    LET g == GCD(x[2], y[2])
        l == (x[2] \div g) * y[2]
    IN  RNorm(x[1] * (l \div x[2]) + y[1] * (l \div y[2]), l)

RNeg(x) == <<0 - x[1], x[2]>>

RSub(x, y) == RAdd(x, RNeg(y))

RMul(x, y) ==
    LET g1 == GCD(Abs(x[1]), y[2])
        g2 == GCD(Abs(y[1]), x[2])
    IN  <<(x[1] \div g1) * (y[1] \div g2), (x[2] \div g2) * (y[2] \div g1)>>

\* x / n for an integer n > 0
RDivInt(x, n) == RMul(x, <<1, n>>)

RLess(x, y) == RSub(x, y)[1] < 0

RECURSIVE RPow(_, _)
RPow(x, k) == IF k = 0 THEN One ELSE RMul(x, RPow(x, k - 1))

\* np.amax over a row indexed 0 .. n-1 (n >= 1)
RECURSIVE amax(_, _)
amax(row, n) ==
    IF n = 1 THEN row[0]
    ELSE LET m == amax(row, n - 1)
         IN  IF RLess(m, row[n - 1]) THEN row[n - 1] ELSE m

\* np.argmax over a row: the lowest index attaining the maximum
argmax(row, n) ==
    CHOOSE a \in 0 .. (n - 1) :
        /\ row[a] = amax(row, n)
        /\ \A b \in 0 .. (a - 1) : row[b] # amax(row, n)

\* np.zeros((nS, nA)) and np.ones((nS, nA)) / nA
zeros(nS, nA) == [s \in 0 .. (nS - 1) |-> [a \in 0 .. (nA - 1) |-> Zero]]
uniform(nS, nA) == [s \in 0 .. (nS - 1) |-> [a \in 0 .. (nA - 1) |-> <<1, nA>>]]

-----------------------------------------------------------------------------
(* The environment interface: reset() and step(action) *)

\* What step(a) can answer in state s: [state, reward, done].
\*   "any":      an arbitrary environment, every answer is possible;
\*   "corridor": a deterministic frozen-lake corridor 0 .. NS-1 that starts in
\*               0 and ends in the goal NS-1 (reward 1); action 0 moves left
\*               (walking into the wall at 0 costs 1), action 1 moves right,
\*               any further action stays.
EnvOutcomes(kind, s, a) ==
    IF kind = "any"
    THEN [state : States, reward : AnyRewards, done : BOOLEAN]
    ELSE IF s = NS - 1
         THEN {[state |-> s, reward |-> 0, done |-> TRUE]}
         ELSE IF a = 1
              THEN {[state |-> s + 1,
                     reward |-> IF s + 1 = NS - 1 THEN 1 ELSE 0,
                     done |-> (s + 1 = NS - 1)]}
              ELSE IF a = 0
                   THEN {[state |-> IF s = 0 THEN 0 ELSE s - 1,
                          reward |-> IF s = 0 THEN 0 - 1 ELSE 0,
                          done |-> FALSE]}
                   ELSE {[state |-> s, reward |-> 0, done |-> FALSE]}

\* The states reset() can answer.
EnvResetStates(kind) == IF kind = "any" THEN States ELSE {0}

\* The environment object after reset() answered s.
EnvAfterReset(e, s) ==
    [e EXCEPT !.state = s, !.done = FALSE]

\* The environment object after step(a) answered o; `action` is the action it
\* was handed, `steps` counts the calls and `late` records a call made after
\* done was reported and before a reset.
EnvAfterStep(e, o, a) ==
    [e EXCEPT !.state = o.state, !.done = o.done, !.action = a,
              !.steps = @ + 1, !.late = @ \/ e.done]

NewEnv(kind) ==
    [kind |-> kind, state |-> 0, done |-> FALSE, action |-> 0 - 1, steps |-> 0,
     late |-> FALSE]

-----------------------------------------------------------------------------
(* Pure functions of the module *)

\* np.random.choice(all_actions, p=policy[state]): the actions it can return
sample_action(pol, state) ==
    {a \in DOMAIN pol[state] : pol[state][a][1] > 0}

\* np.dot of two sequences of equal length
RECURSIVE dot(_, _)
dot(u, v) ==
    IF Len(u) = 0 THEN Zero
    ELSE RAdd(RMul(u[1], v[1]), dot(Tail(u), Tail(v)))

\* generate_returns with the powers taken from 1 instead of 0
generate_returns_shifted(ep, g) ==
    LET len_episode == Len(ep)
        gamma_vector == [k \in 1 .. len_episode |-> g]
        reward_vector == [k \in 1 .. len_episode |-> RInt(ep[k][3])]
    IN  [j \in 1 .. len_episode |->
            dot(SubSeq(reward_vector, j, len_episode),
                [k \in 1 .. (len_episode - j + 1) |-> RPow(gamma_vector[j + k - 1], k)])]

\* generate_returns(episode, gamma); index j here is index j-1 of the source
generate_returns(ep, g) ==
    LET len_episode == Len(ep)
        power_vector == [k \in 1 .. len_episode |-> k - 1]
        gamma_vector == [k \in 1 .. len_episode |-> g]
        reward_vector == [k \in 1 .. len_episode |-> RInt(ep[k][3])]
    IN  [j \in 1 .. len_episode |->
            dot(SubSeq(reward_vector, j, len_episode),
                [k \in 1 .. (len_episode - j + 1) |->
                    RPow(gamma_vector[j + k - 1], power_vector[k])])]

\* mc_update with a fixed step of 1/2 instead of 1/n
mc_update_fixed_rate(q, n, ret) == RAdd(q, RDivInt(RSub(ret, q), 2))

\* the incremental-mean assignment to Q_value[state, action]
mc_update(q, n, ret) == RAdd(q, RDivInt(RSub(ret, q), n))

\* The first-visit loop of mc_policy_evaluation from index k on.  acc holds
\* Q (Q_value), n (n_visits), flag (visit_flag) and log, the updates applied
\* so far as <<state, action, return>>.  The statement that follows the
\* update of Q_value compares visit_flag[state, action] with 1 and assigns
\* nothing, so flag is carried along unchanged.
RECURSIVE mc_first_visit_loop(_, _, _, _)
mc_first_visit_loop(k, ep, rets, acc) ==
    IF k > Len(ep) THEN acc
    ELSE LET state == ep[k][1]
             action == ep[k][2]
         IN  IF acc.flag[state][action] = 0
             THEN LET n1 == acc.n[state][action] + 1
                      q1 == mc_update(acc.Q[state][action], n1, rets[k])
                  IN  mc_first_visit_loop(k + 1, ep, rets,
                          [Q |-> [acc.Q EXCEPT ![state][action] = q1],
                           n |-> [acc.n EXCEPT ![state][action] = n1],
                           flag |-> acc.flag,
                           log |-> Append(acc.log, <<state, action, rets[k]>>)])
             ELSE mc_first_visit_loop(k + 1, ep, rets, acc)

\* the body of mc_policy_evaluation once the episode is sampled
mc_policy_evaluation(ep, Q, n, g, nS, nA) ==
    LET rets == generate_returns(ep, g)
        visit_flag == [s \in 0 .. (nS - 1) |-> [a \in 0 .. (nA - 1) |-> 0]]
    IN  mc_first_visit_loop(1, ep, rets,
            [Q |-> Q, n |-> n, flag |-> visit_flag, log |-> <<>>])

\* the actions whose value equals the row maximum (np.argwhere(row == amax))
max_indices(row, nA) == {a \in 0 .. (nA - 1) : row[a] = amax(row, nA)}

\* epsilon_greedy_policy_improve with the greedy mass on np.argmax alone
epsilon_greedy_first_max(Q, nS, nA, eps) ==
    [state \in 0 .. (nS - 1) |->
        [a \in 0 .. (nA - 1) |->
            IF a = argmax(Q[state], nA)
            THEN RAdd(RSub(One, eps), RDivInt(eps, nA))
            ELSE RDivInt(eps, nA)]]

\* epsilon_greedy_policy_improve(Q_value, nS, nA, epsilon)
epsilon_greedy_policy_improve(Q, nS, nA, eps) ==
    [state \in 0 .. (nS - 1) |->
        LET indices == max_indices(Q[state], nA)
            probability == RAdd(RDivInt(RSub(One, eps), Cardinality(indices)),
                                RDivInt(eps, nA))
        IN  [a \in 0 .. (nA - 1) |->
                IF a \in indices THEN probability ELSE RDivInt(eps, nA)]]

\* the decay with k + 1 for k + 2
glie_epsilon_late(k) == <<1, k + 1>>

\* epsilon = 1 / (k + 2), and 1 / (t + 2) in td_sarsa and qlearning
glie_epsilon(k) == <<1, k + 2>>

\* the policy row td_sarsa writes for s_t1 after its update of Q_value
sarsa_policy_row(Q, s, nA, eps) ==
    LET indices == max_indices(Q[s], nA)
    IN  [a \in 0 .. (nA - 1) |->
            IF a \in indices
            THEN RAdd(RDivInt(RSub(One, eps), Cardinality(indices)),
                      RDivInt(eps, nA))
            ELSE RDivInt(eps, nA)]

\* ql_policy_row with epsilon for epsilon / nA on the maximal actions
ql_policy_row_unscaled(Q, s, nA, eps) ==
    LET indices == max_indices(Q[s], nA)
    IN  [a \in 0 .. (nA - 1) |->
            IF a \in indices
            THEN RAdd(RDivInt(RSub(One, eps), Cardinality(indices)), eps)
            ELSE RDivInt(eps, nA)]

\* the policy row qlearning writes for s_t1 after its update of Q_value
ql_policy_row(Q, s, nA, eps) ==
    LET indices == max_indices(Q[s], nA)
    IN  [a \in 0 .. (nA - 1) |->
            IF a \in indices
            THEN RAdd(RDivInt(RSub(One, eps), Cardinality(indices)),
                      RDivInt(eps, nA))
            ELSE RDivInt(eps, nA)]

\* the value td_sarsa assigns to Q_value[s_t1, a_t1]
sarsa_update(Q, s, a, r, s_next, a_next, al, g) ==
    RAdd(Q[s][a],
         RMul(al, RSub(RAdd(RInt(r), RMul(g, Q[s_next][a_next])), Q[s][a])))

\* ql_update with the value of action 0 at s_next for the row maximum
ql_target_first(Q, s, a, r, s_next, nA, al, g) ==
    RAdd(Q[s][a],
         RMul(al, RSub(RAdd(RInt(r), RMul(g, Q[s_next][0])), Q[s][a])))

\* the value qlearning assigns to Q_value[s_t1, action]
ql_update(Q, s, a, r, s_next, nA, al, g) ==
    LET max_action == amax(Q[s_next], nA)
    IN  RAdd(Q[s][a],
             RMul(al, RSub(RAdd(RInt(r), RMul(g, max_action)), Q[s][a])))

\* np.argmax(Q_value, axis=1)
greedy(Q, nS, nA) == [s \in 0 .. (nS - 1) |-> argmax(Q[s], nA)]

-----------------------------------------------------------------------------
(* Inputs *)

Gammas == {Zero, <<9, 10>>}
Alphas == {Zero, <<1, 10>>}
GammasIn == {Zero, <<1, 2>>, <<9, 10>>, One}
EpsilonsIn == {Zero, <<1, 5>>, One}
QValuesIn == {RInt(1), RInt(3)}

\* a policy that always takes the last action, one that never takes it
\* in state 0, and the uniform one
PoliciesIn ==
    { [s \in States |-> [a \in Actions |-> IF a = NA - 1 THEN One ELSE Zero]],
      [s \in States |-> [a \in Actions |->
          IF s = 0 THEN (IF a = 0 THEN One ELSE Zero) ELSE <<1, NA>>]],
      uniform(NS, NA) }

RECURSIVE SeqsUpTo(_, _)
SeqsUpTo(S, n) ==
    IF n = 0 THEN {<<>>}
    ELSE LET shorter == SeqsUpTo(S, n - 1)
         IN  shorter \cup {Append(q, x) : q \in shorter, x \in S}

NoLast ==
    [op |-> "none", s |-> 0, a |-> 0, r |-> 0, s_next |-> 0, a_next |-> 0,
     done |-> FALSE, log |-> <<>>]

NoInts == [s \in States |-> [a \in Actions |-> 0]]
NoSets == [s \in States |-> [a \in Actions |-> {}]]

\* history of the updates in log, added to the sums / sets kept per pair
RECURSIVE AddReturns(_, _)
AddReturns(sums, log) ==
    IF Len(log) = 0 THEN sums
    ELSE AddReturns(
             [sums EXCEPT ![log[1][1]][log[1][2]] = RAdd(@, log[1][3])],
             Tail(log))

RECURSIVE SeeReturns(_, _)
SeeReturns(seen, log) ==
    IF Len(log) = 0 THEN seen
    ELSE SeeReturns(
             [seen EXCEPT ![log[1][1]][log[1][2]] = @ \cup {log[1][3]}],
             Tail(log))

-----------------------------------------------------------------------------
(* Initial states *)

\* the locals no entry point has assigned yet
Fresh ==
    /\ t = 0
    /\ epsilon = One
    /\ s_t1 = 0
    /\ a_t1 = 0
    /\ episode = <<>>
    /\ curr_state = 0
    /\ i = 0
    /\ returns = <<>>
    /\ det_policy = <<>>
    /\ last = NoLast
    /\ ret_sum = zeros(NS, NA)
    /\ ret_seen = NoSets
    /\ n_visits = NoInts

\* a control loop was called on the corridor: Q_value and n_visits are
\* np.zeros, policy is uniform, epsilon is 1
Init ==
    /\ entry \in {"mc_glie", "td_sarsa", "qlearning"}
    /\ iterations \in 0 .. (IF entry = "mc_glie" THEN McMaxIterations ELSE MaxIterations)
    /\ gamma \in Gammas
    /\ alpha \in (IF entry = "mc_glie" THEN {Zero} ELSE Alphas)
    /\ Q_value = zeros(NS, NA)
    /\ policy = uniform(NS, NA)
    /\ max_steps = McMaxSteps
    /\ env = NewEnv("corridor")
    /\ pc = (IF entry = "mc_glie" THEN "mc_loop"
             ELSE IF entry = "td_sarsa" THEN "sarsa_start" ELSE "ql_start")
    /\ Fresh

\* generate_episode was called on an arbitrary environment
InitEpisode ==
    /\ entry = "generate_episode"
    /\ iterations = 0
    /\ gamma = Zero
    /\ alpha = Zero
    /\ Q_value = zeros(NS, NA)
    /\ policy \in PoliciesIn
    /\ max_steps \in 0 .. MaxStepsIn
    /\ env = NewEnv("any")
    /\ pc = "ge_reset"
    /\ Fresh

ReturnTriples == {<<0, 1, r>> : r \in {0 - 1, 0, 1, 2}} \cup {<<1, 0, 2>>}

\* generate_returns is about to be called
InitReturns ==
    /\ entry = "generate_returns"
    /\ iterations = 0
    /\ gamma \in GammasIn
    /\ alpha = Zero
    /\ Q_value = zeros(NS, NA)
    /\ policy = uniform(NS, NA)
    /\ max_steps = 0
    /\ env = NewEnv("any")
    /\ pc = "call"
    /\ t = 0
    /\ epsilon = One
    /\ s_t1 = 0
    /\ a_t1 = 0
    /\ episode \in SeqsUpTo(ReturnTriples, MaxLen)
    /\ curr_state = 0
    /\ i = 0
    /\ returns = <<>>
    /\ det_policy = <<>>
    /\ last = NoLast
    /\ ret_sum = zeros(NS, NA)
    /\ ret_seen = NoSets
    /\ n_visits = NoInts

\* epsilon_greedy_policy_improve is about to be called
InitImprove ==
    /\ entry = "epsilon_greedy_policy_improve"
    /\ iterations = 0
    /\ gamma = Zero
    /\ alpha = Zero
    /\ Q_value \in [0 .. (ImpNS - 1) -> [0 .. (ImpNA - 1) -> QValuesIn]]
    /\ policy = uniform(ImpNS, ImpNA)
    /\ max_steps = 0
    /\ env = NewEnv("any")
    /\ pc = "call"
    /\ t = 0
    /\ epsilon \in EpsilonsIn
    /\ s_t1 = 0
    /\ a_t1 = 0
    /\ episode = <<>>
    /\ curr_state = 0
    /\ i = 0
    /\ returns = <<>>
    /\ det_policy = <<>>
    /\ last = NoLast
    /\ ret_sum = zeros(NS, NA)
    /\ ret_seen = NoSets
    /\ n_visits = NoInts

-----------------------------------------------------------------------------
(* generate_episode *)

\* episode = []; curr_state = env.reset()
GE_Reset ==
    /\ pc = "ge_reset"
    /\ \E s \in EnvResetStates(env.kind) :
        /\ curr_state' = s
        /\ env' = EnvAfterReset(env, s)
        /\ last' = [NoLast EXCEPT !.op = "reset", !.s_next = s]
    /\ episode' = <<>>
    /\ i' = 0
    /\ pc' = "ge_loop"
    /\ UNCHANGED <<entry, iterations, gamma, alpha, Q_value, n_visits, policy,
                   epsilon, t, s_t1, a_t1, max_steps, returns, det_policy,
                   ret_sum, ret_seen>>

\* GE_Step appending the state stepped into instead of the state left
GE_Step_records_next ==
    /\ pc = "ge_loop"
    /\ i < max_steps
    /\ \E a \in sample_action(policy, curr_state) :
       \E o \in EnvOutcomes(env.kind, env.state, a) :
        /\ episode' = Append(episode, <<o.state, a, o.reward>>)
        /\ curr_state' = o.state
        /\ env' = EnvAfterStep(env, o, a)
        /\ pc' = IF o.done THEN "ge_break" ELSE "ge_loop"
        /\ i' = IF o.done THEN i ELSE i + 1
        /\ last' = [NoLast EXCEPT !.op = "ge_step", !.s = curr_state, !.a = a,
                        !.r = o.reward, !.s_next = o.state, !.done = o.done]
    /\ UNCHANGED <<entry, iterations, gamma, alpha, Q_value, n_visits, policy,
                   epsilon, t, s_t1, a_t1, max_steps, returns, det_policy,
                   ret_sum, ret_seen>>

\* one pass of the for loop: take_one_step, append, advance, break on done
GE_Step ==
    /\ pc = "ge_loop"
    /\ i < max_steps
    /\ \E a \in sample_action(policy, curr_state) :
       \E o \in EnvOutcomes(env.kind, env.state, a) :
        /\ episode' = Append(episode, <<curr_state, a, o.reward>>)
        /\ curr_state' = o.state
        /\ env' = EnvAfterStep(env, o, a)
        /\ pc' = IF o.done THEN "ge_break" ELSE "ge_loop"
        /\ i' = IF o.done THEN i ELSE i + 1
        /\ last' = [NoLast EXCEPT !.op = "ge_step", !.s = curr_state, !.a = a,
                        !.r = o.reward, !.s_next = o.state, !.done = o.done]
    /\ UNCHANGED <<entry, iterations, gamma, alpha, Q_value, n_visits, policy,
                   epsilon, t, s_t1, a_t1, max_steps, returns, det_policy,
                   ret_sum, ret_seen>>

\* return episode: the loop ran out of range(max_steps), or broke on done
GE_Return ==
    /\ \/ pc = "ge_loop" /\ i >= max_steps
       \/ pc = "ge_break"
    /\ pc' = IF entry = "mc_glie" THEN "mc_eval" ELSE "done"
    /\ UNCHANGED <<entry, iterations, gamma, alpha, Q_value, n_visits, policy,
                   epsilon, t, s_t1, a_t1, episode, curr_state, i, max_steps,
                   returns, det_policy, env, last, ret_sum, ret_seen>>

NextEpisode == GE_Reset \/ GE_Step \/ GE_Return

SpecEpisode == InitEpisode /\ [][NextEpisode]_vars

-----------------------------------------------------------------------------
(* generate_returns and epsilon_greedy_policy_improve called on their own *)

CallGenerateReturns ==
    /\ entry = "generate_returns"
    /\ pc = "call"
    /\ returns' = generate_returns(episode, gamma)
    /\ pc' = "done"
    /\ UNCHANGED <<entry, iterations, gamma, alpha, Q_value, n_visits, policy,
                   epsilon, t, s_t1, a_t1, episode, curr_state, i, max_steps,
                   det_policy, env, last, ret_sum, ret_seen>>

NextReturns == CallGenerateReturns

SpecReturns == InitReturns /\ [][NextReturns]_vars

CallImprove ==
    /\ entry = "epsilon_greedy_policy_improve"
    /\ pc = "call"
    /\ policy' = epsilon_greedy_policy_improve(Q_value, ImpNS, ImpNA, epsilon)
    /\ pc' = "done"
    /\ UNCHANGED <<entry, iterations, gamma, alpha, Q_value, n_visits,
                   epsilon, t, s_t1, a_t1, episode, curr_state, i, max_steps,
                   returns, det_policy, env, last, ret_sum, ret_seen>>

NextImprove == CallImprove

SpecImprove == InitImprove /\ [][NextImprove]_vars

-----------------------------------------------------------------------------
(* mc_glie *)

\* for k in range(iterations): mc_policy_evaluation calls generate_episode
McIterate ==
    /\ pc = "mc_loop"
    /\ t < iterations
    /\ pc' = "ge_reset"
    /\ UNCHANGED <<entry, iterations, gamma, alpha, Q_value, n_visits, policy,
                   epsilon, t, s_t1, a_t1, episode, curr_state, i, max_steps,
                   returns, det_policy, env, last, ret_sum, ret_seen>>

\* the rest of the iteration: returns, the first-visit loop, the decay of
\* epsilon and the policy improvement
McEvaluate ==
    /\ pc = "mc_eval"
    /\ LET res == mc_policy_evaluation(episode, Q_value, n_visits, gamma, NS, NA)
           eps == glie_epsilon(t)
       IN  /\ returns' = generate_returns(episode, gamma)
           /\ Q_value' = res.Q
           /\ n_visits' = res.n
           /\ epsilon' = eps
           /\ policy' = epsilon_greedy_policy_improve(res.Q, NS, NA, eps)
           /\ last' = [NoLast EXCEPT !.op = "mc_eval", !.log = res.log]
           /\ ret_sum' = AddReturns(ret_sum, res.log)
           /\ ret_seen' = SeeReturns(ret_seen, res.log)
    /\ t' = t + 1
    /\ pc' = "mc_loop"
    /\ UNCHANGED <<entry, iterations, gamma, alpha, s_t1, a_t1, episode,
                   curr_state, i, max_steps, det_policy, env>>

\* det_policy = np.argmax(Q_value, axis=1); return
McReturn ==
    /\ pc = "mc_loop"
    /\ t >= iterations
    /\ det_policy' = greedy(Q_value, NS, NA)
    /\ pc' = "done"
    /\ UNCHANGED <<entry, iterations, gamma, alpha, Q_value, n_visits, policy,
                   epsilon, t, s_t1, a_t1, episode, curr_state, i, max_steps,
                   returns, env, last, ret_sum, ret_seen>>

-----------------------------------------------------------------------------
(* td_sarsa *)

\* s_t1 = env.reset(); a_t1 = sample_action(policy, s_t1)
SarsaStart ==
    /\ pc = "sarsa_start"
    /\ \E s \in EnvResetStates(env.kind) :
       \E a \in sample_action(policy, s) :
        /\ s_t1' = s
        /\ a_t1' = a
        /\ env' = EnvAfterReset(env, s)
        /\ last' = [NoLast EXCEPT !.op = "start", !.s_next = s, !.a_next = a]
    /\ pc' = "sarsa_loop"
    /\ UNCHANGED <<entry, iterations, gamma, alpha, Q_value, n_visits, policy,
                   epsilon, t, episode, curr_state, i, max_steps, returns,
                   det_policy, ret_sum, ret_seen>>

\* SarsaStep sampling the next action again after the policy update
\* instead of carrying a_next over
SarsaStep_resamples ==
    /\ pc = "sarsa_loop"
    /\ t < iterations
    /\ \E o \in EnvOutcomes(env.kind, env.state, a_t1) :
       \E a_next \in sample_action(policy, o.state) :
        LET q1 == sarsa_update(Q_value, s_t1, a_t1, o.reward, o.state, a_next,
                               alpha, gamma)
            Q1 == [Q_value EXCEPT ![s_t1][a_t1] = q1]
            eps == glie_epsilon(t)
            pol1 == [policy EXCEPT ![s_t1] = sarsa_policy_row(Q1, s_t1, NA, eps)]
        IN  /\ Q_value' = Q1
            /\ epsilon' = eps
            /\ policy' = pol1
            /\ last' = [NoLast EXCEPT !.op = "sarsa_step", !.s = s_t1,
                            !.a = a_t1, !.r = o.reward, !.s_next = o.state,
                            !.a_next = a_next, !.done = o.done]
            /\ IF o.done
               THEN \E s \in EnvResetStates(env.kind) :
                    \E a \in sample_action(pol1, s) :
                        /\ s_t1' = s
                        /\ a_t1' = a
                        /\ env' = EnvAfterReset(EnvAfterStep(env, o, a_t1), s)
               ELSE \E a \in sample_action(pol1, o.state) :
                        /\ s_t1' = o.state
                        /\ a_t1' = a
                        /\ env' = EnvAfterStep(env, o, a_t1)
    /\ t' = t + 1
    /\ UNCHANGED <<entry, pc, iterations, gamma, alpha, n_visits, episode,
                   curr_state, i, max_steps, returns, det_policy, ret_sum,
                   ret_seen>>

\* one pass of the loop: step with a_t1, sample a_next, update Q_value and the
\* policy row of s_t1, then reset and resample on done or carry
\* (s_next, a_next) over
SarsaStep ==
    /\ pc = "sarsa_loop"
    /\ t < iterations
    /\ \E o \in EnvOutcomes(env.kind, env.state, a_t1) :
       \E a_next \in sample_action(policy, o.state) :
        LET q1 == sarsa_update(Q_value, s_t1, a_t1, o.reward, o.state, a_next,
                               alpha, gamma)
            Q1 == [Q_value EXCEPT ![s_t1][a_t1] = q1]
            eps == glie_epsilon(t)
            pol1 == [policy EXCEPT ![s_t1] = sarsa_policy_row(Q1, s_t1, NA, eps)]
        IN  /\ Q_value' = Q1
            /\ epsilon' = eps
            /\ policy' = pol1
            /\ last' = [NoLast EXCEPT !.op = "sarsa_step", !.s = s_t1,
                            !.a = a_t1, !.r = o.reward, !.s_next = o.state,
                            !.a_next = a_next, !.done = o.done]
            /\ IF o.done
               THEN \E s \in EnvResetStates(env.kind) :
                    \E a \in sample_action(pol1, s) :
                        /\ s_t1' = s
                        /\ a_t1' = a
                        /\ env' = EnvAfterReset(EnvAfterStep(env, o, a_t1), s)
               ELSE /\ s_t1' = o.state
                    /\ a_t1' = a_next
                    /\ env' = EnvAfterStep(env, o, a_t1)
    /\ t' = t + 1
    /\ UNCHANGED <<entry, pc, iterations, gamma, alpha, n_visits, episode,
                   curr_state, i, max_steps, returns, det_policy, ret_sum,
                   ret_seen>>

\* det_policy = np.argmax(Q_value, axis=1); return
SarsaReturn ==
    /\ pc = "sarsa_loop"
    /\ t >= iterations
    /\ det_policy' = greedy(Q_value, NS, NA)
    /\ pc' = "done"
    /\ UNCHANGED <<entry, iterations, gamma, alpha, Q_value, n_visits, policy,
                   epsilon, t, s_t1, a_t1, episode, curr_state, i, max_steps,
                   returns, env, last, ret_sum, ret_seen>>

-----------------------------------------------------------------------------
(* qlearning *)

\* s_t1 = env.reset()
QlStart ==
    /\ pc = "ql_start"
    /\ \E s \in EnvResetStates(env.kind) :
        /\ s_t1' = s
        /\ env' = EnvAfterReset(env, s)
        /\ last' = [NoLast EXCEPT !.op = "start", !.s_next = s]
    /\ pc' = "ql_loop"
    /\ UNCHANGED <<entry, iterations, gamma, alpha, Q_value, n_visits, policy,
                   epsilon, t, a_t1, episode, curr_state, i, max_steps,
                   returns, det_policy, ret_sum, ret_seen>>

\* QlStep rewriting every row of the policy instead of the row of s_t1
QlStep_all_rows ==
    /\ pc = "ql_loop"
    /\ t < iterations
    /\ \E action \in sample_action(policy, s_t1) :
       \E o \in EnvOutcomes(env.kind, env.state, action) :
        LET q1 == ql_update(Q_value, s_t1, action, o.reward, o.state, NA,
                            alpha, gamma)
            Q1 == [Q_value EXCEPT ![s_t1][action] = q1]
            eps == glie_epsilon(t)
        IN  /\ Q_value' = Q1
            /\ epsilon' = eps
            /\ policy' = [s \in States |-> ql_policy_row(Q1, s, NA, eps)]
            /\ last' = [NoLast EXCEPT !.op = "ql_step", !.s = s_t1,
                            !.a = action, !.r = o.reward, !.s_next = o.state,
                            !.done = o.done]
            /\ IF o.done
               THEN \E s \in EnvResetStates(env.kind) :
                        /\ s_t1' = s
                        /\ env' = EnvAfterReset(EnvAfterStep(env, o, action), s)
               ELSE /\ s_t1' = o.state
                    /\ env' = EnvAfterStep(env, o, action)
    /\ t' = t + 1
    /\ UNCHANGED <<entry, pc, iterations, gamma, alpha, n_visits, a_t1,
                   episode, curr_state, i, max_steps, returns, det_policy,
                   ret_sum, ret_seen>>

\* one pass of the loop: sample the action, step, update Q_value and the
\* policy row of s_t1, then reset on done or move to s_next
QlStep ==
    /\ pc = "ql_loop"
    /\ t < iterations
    /\ \E action \in sample_action(policy, s_t1) :
       \E o \in EnvOutcomes(env.kind, env.state, action) :
        LET q1 == ql_update(Q_value, s_t1, action, o.reward, o.state, NA,
                            alpha, gamma)
            Q1 == [Q_value EXCEPT ![s_t1][action] = q1]
            eps == glie_epsilon(t)
        IN  /\ Q_value' = Q1
            /\ epsilon' = eps
            /\ policy' = [policy EXCEPT ![s_t1] = ql_policy_row(Q1, s_t1, NA, eps)]
            /\ last' = [NoLast EXCEPT !.op = "ql_step", !.s = s_t1,
                            !.a = action, !.r = o.reward, !.s_next = o.state,
                            !.done = o.done]
            /\ IF o.done
               THEN \E s \in EnvResetStates(env.kind) :
                        /\ s_t1' = s
                        /\ env' = EnvAfterReset(EnvAfterStep(env, o, action), s)
               ELSE /\ s_t1' = o.state
                    /\ env' = EnvAfterStep(env, o, action)
    /\ t' = t + 1
    /\ UNCHANGED <<entry, pc, iterations, gamma, alpha, n_visits, a_t1,
                   episode, curr_state, i, max_steps, returns, det_policy,
                   ret_sum, ret_seen>>

\* det_policy = np.argmax(Q_value, axis=1); return
QlReturn ==
    /\ pc = "ql_loop"
    /\ t >= iterations
    /\ det_policy' = greedy(Q_value, NS, NA)
    /\ pc' = "done"
    /\ UNCHANGED <<entry, iterations, gamma, alpha, Q_value, n_visits, policy,
                   epsilon, t, s_t1, a_t1, episode, curr_state, i, max_steps,
                   returns, env, last, ret_sum, ret_seen>>

-----------------------------------------------------------------------------
(* The three control loops *)

Next ==
    \/ McIterate
    \/ GE_Reset
    \/ GE_Step
    \/ GE_Return
    \/ McEvaluate
    \/ McReturn
    \/ SarsaStart
    \/ SarsaStep
    \/ SarsaReturn
    \/ QlStart
    \/ QlStep
    \/ QlReturn

Spec == Init /\ [][Next]_vars

-----------------------------------------------------------------------------
(* Vocabulary of the properties, stated without the operators of the model *)

\* the sum of a row indexed 0 .. n-1
RECURSIVE RowSum(_, _)
RowSum(row, n) == IF n = 0 THEN Zero ELSE RAdd(RowSum(row, n - 1), row[n - 1])

\* the indices at which the pair (s, a) occurs in an episode
Occurrences(ep, s, a) == {k \in 1 .. Len(ep) : ep[k][1] = s /\ ep[k][2] = a}

\* the entries of an update log that are about the pair (s, a)
UpdatesOf(log, s, a) == {k \in 1 .. Len(log) : log[k][1] = s /\ log[k][2] = a}

Least(S) == CHOOSE k \in S : \A m \in S : k <= m

\* M: the actions no other action of the row beats
Maximal(row, nA) ==
    {a \in 0 .. (nA - 1) : \A b \in 0 .. (nA - 1) : ~RLess(row[a], row[b])}

\* the value of the row's maximal actions
RowMax(row, nA) == row[CHOOSE a \in Maximal(row, nA) : TRUE]

\* (1 - eps)/|M| + eps/nA on M, eps/nA elsewhere
TieSplitRow(row, nA, eps) ==
    LET M == Maximal(row, nA)
    IN  [a \in 0 .. (nA - 1) |->
            IF a \in M
            THEN RAdd(RMul(RSub(One, eps), <<1, Cardinality(M)>>),
                      RMul(eps, <<1, nA>>))
            ELSE RMul(eps, <<1, nA>>)]

\* G[n] = reward[n], G[j] = reward[j] + gamma * G[j+1]
RECURSIVE DiscountedReturn(_, _, _)
DiscountedReturn(ep, g, j) ==
    IF j = Len(ep) THEN RInt(ep[j][3])
    ELSE RAdd(RInt(ep[j][3]), RMul(g, DiscountedReturn(ep, g, j + 1)))

\* q + al * (r + g * v - q)
TdTarget(q, al, r, g, v) ==
    RAdd(q, RMul(al, RSub(RAdd(RInt(r), RMul(g, v)), q)))

TdStep == entry \in {"td_sarsa", "qlearning"} /\ t' = t + 1

-----------------------------------------------------------------------------
(* Properties *)

\* C1: first-visit rule.  One call of mc_policy_evaluation raises
\* n_visits[s, a] by exactly 1 for every pair that occurs in the sampled
\* episode, however often it occurs, applies exactly one update to
\* Q_value[s, a], with the return of the pair's first occurrence, and leaves
\* the pairs that do not occur alone.
C1_FirstVisit ==
    [][(pc = "mc_eval" /\ pc' = "mc_loop") =>
        \A s \in States, a \in Actions :
            LET occ == Occurrences(episode, s, a)
                upd == UpdatesOf(last'.log, s, a)
            IN  IF occ = {}
                THEN /\ n_visits'[s][a] = n_visits[s][a]
                     /\ Q_value'[s][a] = Q_value[s][a]
                     /\ upd = {}
                ELSE /\ n_visits'[s][a] = n_visits[s][a] + 1
                     /\ Cardinality(upd) = 1
                     /\ \A k \in upd : last'.log[k][3] = returns'[Least(occ)]]_vars

\* C2: tie-splitting.  The policy epsilon_greedy_policy_improve returns gives,
\* in every state, (1 - epsilon)/|M| + epsilon/nA to each action of M, the
\* set of all actions attaining the row maximum, and epsilon/nA to the others.
C2_TieSplitting ==
    (entry = "epsilon_greedy_policy_improve" /\ pc = "done") =>
        \A s \in 0 .. (ImpNS - 1) :
            policy[s] = TieSplitRow(Q_value[s], ImpNA, epsilon)

\* C2 witness: Q[s] = [3, 3, 1, 3] and epsilon = 0.2 give the three-way split
\* 0.8/3 + 0.05 over the actions 0, 1, 3 and 0.05 for action 2.
C2_Witness ==
    /\ entry = "epsilon_greedy_policy_improve"
    /\ pc = "done"
    /\ epsilon = <<1, 5>>
    /\ Q_value[0][0] = RInt(3) /\ Q_value[0][1] = RInt(3)
    /\ Q_value[0][2] = RInt(1) /\ Q_value[0][3] = RInt(3)
    /\ policy[0][0] = <<19, 60>> /\ policy[0][1] = <<19, 60>>
    /\ policy[0][2] = <<1, 20>> /\ policy[0][3] = <<19, 60>>

C4_EpisodeBound ==
    /\ [](entry = "generate_episode" =>
            /\ ~env.late
            /\ env.steps <= max_steps
            /\ Len(episode) = (IF pc = "ge_reset" THEN 0 ELSE env.steps)
            /\ (pc = "done" /\ ~env.done) => Len(episode) = max_steps
            /\ (pc = "done" /\ env.done) => last.done /\ last.op = "ge_step")
    /\ [][(entry = "generate_episode" /\ Len(episode') = Len(episode) + 1) =>
            /\ episode'[Len(episode')] = <<env.state, env'.action, last'.r>>
            /\ SubSeq(episode', 1, Len(episode)) = episode
            /\ Len(episode) = 0 => (last.op = "reset" /\ env.state = last.s_next)]_vars

\* C4 witness: an environment that never reported done, max_steps = 2, and a
\* returned trajectory of 2 triples.
C4_Witness ==
    /\ entry = "generate_episode"
    /\ pc = "done"
    /\ ~env.done
    /\ max_steps = 2
    /\ Len(episode) = 2

\* C5: generate_returns answers one return per step, entry j the discounted
\* sum G[j] = reward[j] + gamma * G[j+1] of the rewards from j on (G of the
\* last step is its reward); a one-step episode yields its reward, an empty
\* one the empty result.
C5_Returns ==
    (entry = "generate_returns" /\ pc = "done") =>
        /\ Len(returns) = Len(episode)
        /\ \A j \in 1 .. Len(episode) :
               returns[j] = DiscountedReturn(episode, gamma, j)
        /\ Len(episode) = 1 => returns[1] = RInt(episode[1][3])
        /\ episode = <<>> => returns = <<>>

\* C5 witness: rewards [1, -1, 0, 2] with gamma = 0.9 give
\* [1.558, 0.62, 1.8, 2].
C5_Witness ==
    /\ entry = "generate_returns"
    /\ pc = "done"
    /\ gamma = <<9, 10>>
    /\ [j \in 1 .. Len(episode) |-> episode[j][3]] = <<1, 0 - 1, 0, 2>>
    /\ returns = << <<779, 500>>, <<31, 50>>, <<9, 5>>, <<2, 1>> >>

\* C6: SARSA is on-policy across steps.  Each step of td_sarsa hands the
\* environment the carried action a_t1 in the carried state s_t1, samples a'
\* from the policy row of s' as it is before the step rewrites the policy,
\* sets Q[s, a] to Q[s, a] + alpha * (r + gamma * Q[s', a'] - Q[s, a]), and
\* then carries (s', a') over unless the step reported done, in which case
\* the environment is reset and the action is sampled from the row of the
\* state reset() answered.
C6_SarsaOnPolicy ==
    [][(entry = "td_sarsa" /\ t' = t + 1) =>
        /\ env'.action = a_t1
        /\ env.state = s_t1
        /\ last'.s = s_t1 /\ last'.a = a_t1
        /\ last'.a_next \in Actions
        /\ policy[last'.s_next][last'.a_next][1] > 0
        /\ Q_value'[s_t1][a_t1] =
               TdTarget(Q_value[s_t1][a_t1], alpha, last'.r, gamma,
                        Q_value[last'.s_next][last'.a_next])
        /\ ~last'.done => /\ s_t1' = last'.s_next
                          /\ a_t1' = last'.a_next
                          /\ env'.state = last'.s_next
        /\ last'.done => /\ ~env'.done
                         /\ s_t1' = env'.state
                         /\ s_t1' \in EnvResetStates(env.kind)
                         /\ policy'[s_t1'][a_t1'][1] > 0]_vars

\* C6 witness: two steps of td_sarsa, the second not done, so that the first
\* step's a' was executed and the second step's a' is carried.
C6_Witness ==
    /\ entry = "td_sarsa"
    /\ t >= 2
    /\ last.op = "sarsa_step"
    /\ ~last.done
    /\ last.s_next # last.s
    /\ a_t1 = last.a_next
    /\ env.action = last.a
    /\ Q_value[0][0] # Zero

\* C7: Q-learning is off-policy.  Each step of qlearning samples its action
\* from the policy row of s_t1 and sets Q[s, a] to
\* Q[s, a] + alpha * (r + gamma * max Q[s', .] - Q[s, a]); and the value
\* differs from the one the SARSA rule gives for the same (s, a, s', r)
\* with any a' that is not maximal at s'.
C7_QLearningOffPolicy ==
    [][(entry = "qlearning" /\ t' = t + 1) =>
        /\ last'.s = s_t1 /\ env'.action = last'.a
        /\ policy[s_t1][last'.a][1] > 0
        /\ Q_value'[s_t1][last'.a] =
               TdTarget(Q_value[s_t1][last'.a], alpha, last'.r, gamma,
                        RowMax(Q_value[last'.s_next], NA))
        /\ \A a2 \in Actions \ Maximal(Q_value[last'.s_next], NA) :
               Q_value'[s_t1][last'.a] #
                   TdTarget(Q_value[s_t1][last'.a], alpha, last'.r, gamma,
                            Q_value[last'.s_next][a2])]_vars

\* C7, amended: as C7, the two rules being required to differ only when
\* alpha and gamma are both non-zero.
C7_QLearningOffPolicy_Amended ==
    [][(entry = "qlearning" /\ t' = t + 1) =>
        /\ last'.s = s_t1 /\ env'.action = last'.a
        /\ policy[s_t1][last'.a][1] > 0
        /\ Q_value'[s_t1][last'.a] =
               TdTarget(Q_value[s_t1][last'.a], alpha, last'.r, gamma,
                        RowMax(Q_value[last'.s_next], NA))
        /\ (alpha # Zero /\ gamma # Zero) =>
               \A a2 \in Actions \ Maximal(Q_value[last'.s_next], NA) :
                   Q_value'[s_t1][last'.a] #
                       TdTarget(Q_value[s_t1][last'.a], alpha, last'.r, gamma,
                                Q_value[last'.s_next][a2])]_vars

\* C7 witness: a step of qlearning with alpha, gamma non-zero into a
\* successor other than s whose row of Q is not constant.
C7_Witness ==
    /\ entry = "qlearning"
    /\ last.op = "ql_step"
    /\ alpha # Zero /\ gamma # Zero
    /\ last.s_next # last.s
    /\ Maximal(Q_value[last.s_next], NA) # Actions
    /\ Q_value[last.s][last.a] # Zero

\* C8: frame of one TD step.  A step of td_sarsa or qlearning from state s
\* with action a changes no entry of Q_value but Q_value[s, a] and no row of
\* the policy but the row of s.
C8_TdStepFrame ==
    [][TdStep =>
        /\ last'.s = s_t1
        /\ env'.action = last'.a
        /\ \A s \in States, a \in Actions :
               (s # s_t1 \/ a # last'.a) => Q_value'[s][a] = Q_value[s][a]
        /\ \A s \in States : s # s_t1 => policy'[s] = policy[s]]_vars

\* C8 witness: a TD step into a successor other than s that changed
\* Q_value[s, a] and the row of s, while an earlier step had already
\* rewritten the row of the successor.
C8_Witness ==
    /\ entry \in {"td_sarsa", "qlearning"}
    /\ last.op \in {"sarsa_step", "ql_step"}
    /\ last.s_next # last.s
    /\ Q_value[last.s][last.a] # Zero
    /\ policy[last.s] # uniform(NS, NA)[last.s]
    /\ policy[last.s_next] # uniform(NS, NA)[last.s_next]

\* C9: incremental sample mean.  In mc_glie n_visits never decreases, one
\* evaluation raises n_visits[s, a] by the number of updates it applied to
\* the pair, and Q_value[s, a] is the arithmetic mean of the returns used in
\* all updates of the pair so far (0 if none): the return itself when all of
\* them were equal.
C9_IncrementalMean ==
    /\ [](entry = "mc_glie" =>
            \A s \in States, a \in Actions :
                /\ n_visits[s][a] >= 0
                /\ n_visits[s][a] = 0 =>
                       (Q_value[s][a] = Zero /\ ret_seen[s][a] = {})
                /\ n_visits[s][a] > 0 =>
                       Q_value[s][a] = RMul(ret_sum[s][a], <<1, n_visits[s][a]>>)
                /\ \A r \in ret_seen[s][a] :
                       ret_seen[s][a] = {r} => Q_value[s][a] = r)
    /\ [][entry = "mc_glie" =>
            \A s \in States, a \in Actions :
                /\ n_visits'[s][a] >= n_visits[s][a]
                /\ (pc = "mc_eval" /\ pc' = "mc_loop") =>
                       n_visits'[s][a] - n_visits[s][a] =
                           Cardinality(UpdatesOf(last'.log, s, a))]_vars

\* C9 witness: a pair updated at least twice, with different returns.
C9_Witness ==
    /\ entry = "mc_glie"
    /\ \E s \in States, a \in Actions :
        /\ n_visits[s][a] >= 2
        /\ Cardinality(ret_seen[s][a]) >= 2
        /\ Q_value[s][a] # Zero

\* C10: the epsilon schedule.  mc_glie samples episode 0 under the uniform
\* policy and episode k >= 1 under the tie-splitting epsilon-greedy policy of
\* the current Q with epsilon = 1/(k+1), the improvement of iteration k-1;
\* step t of td_sarsa and qlearning rewrites the row of s as the
\* tie-splitting row of the updated Q[s, .] with epsilon = 1/(t+2); a loop
\* steps the environment once per pass (td_sarsa, qlearning), never runs
\* more than `iterations` passes and returns after exactly that many.
C10_EpsilonSchedule ==
    /\ [](entry \in {"mc_glie", "td_sarsa", "qlearning"} =>
            /\ t <= iterations
            /\ pc = "done" => t = iterations
            /\ entry # "mc_glie" => env.steps = t
            /\ t = 0 => (policy = uniform(NS, NA) /\ epsilon = One)
            /\ t >= 1 => epsilon = <<1, t + 1>>
            /\ (entry = "mc_glie" /\ t >= 1) =>
                   \A s \in States :
                       policy[s] = TieSplitRow(Q_value[s], NA, <<1, t + 1>>))
    /\ [][(TdStep =>
              policy'[s_t1] = TieSplitRow(Q_value'[s_t1], NA, <<1, t + 2>>))
          /\ (t' = t \/ t' = t + 1)]_vars

\* C10 witness: mc_glie returned after 2 iterations, with epsilon = 1/3 and
\* a row that prefers an action.
C10_Witness ==
    /\ entry = "mc_glie"
    /\ pc = "done"
    /\ t = 2
    /\ epsilon = <<1, 3>>
    /\ \E s \in States : policy[s] # uniform(NS, NA)[s]

=============================================================================
